---- MODULE Spec2Model ----
(***************************************************************************)
(* Model of cli_test: the batch runner of src/src/lib.rs (run, run_test,   *)
(* validate_test, report_summary) and the expectation verifier of          *)
(* src/src/expectations.rs (verify_expectations and its three checks).     *)
(*                                                                         *)
(* Strings are modelled as the byte sequences Rust stores them as; an      *)
(* Option<T> is a sequence of length 0 (None) or 1 (Some).                 *)
(***************************************************************************)
EXTENDS Integers, Sequences, FiniteSets, TLC

\* Largest number of test declarations in a parsed file.
MaxTests == 2
\* Longest captured output stream, in bytes, handed to verify_expectations.
MaxBytes == 2

None == <<>>
Some(x) == <<x>>
IsSome(o) == o # <<>>
IsNone(o) == o = <<>>

(***************************************************************************)
(* Data                                                                    *)
(***************************************************************************)

\* Bytes a captured stream is built from: 'a', and the two bytes of U+00E9.
Bytes == {97, 195, 169}

RECURSIVE BytesUpTo(_)
BytesUpTo(n) ==
    IF n = 0 THEN {<<>>}
    ELSE LET shorter == BytesUpTo(n - 1)
         IN  shorter \cup {Append(s, b) : s \in {t \in shorter : Len(t) = n - 1}, b \in Bytes}

\* struct Test: name, input, out, err, exit_code.
Test(names, inputs, strings, codes) ==
    [name : names, input : inputs,
     out : {None} \cup {Some(s) : s \in strings},
     err : {None} \cup {Some(s) : s \in strings},
     exit_code : {None} \cup {Some(c) : c \in codes}]

\* std::process::Output: the two captured streams and status.code().
Output(streams, codes) ==
    [stdout : streams, stderr : streams,
     code : {None} \cup {Some(c) : c \in codes}]

\* The declarations a file of the batch runner may hold.
RunTests == Test({"a", "b"}, {"cmd"}, {<<97>>}, {0})
\* What a spawned command of the batch runner may produce: a stream equal to
\* the expected text, another valid text, or a truncated UTF-8 sequence.
RunOutputs == Output({<<97>>, <<195, 169>>, <<195>>}, {0, 1})

\* The inputs of verify_expectations.
VerifyTests == Test({"a"}, {"cmd"}, {<<>>, <<97>>, <<195, 169>>}, {0, 1})
VerifyOutputs == Output(BytesUpTo(MaxBytes), {0, 1})

RECURSIVE SeqsUpTo(_, _)
SeqsUpTo(S, n) ==
    IF n = 0 THEN {<<>>}
    ELSE LET shorter == SeqsUpTo(S, n - 1)
         IN  shorter \cup {Append(s, x) : s \in {t \in shorter : Len(t) = n - 1}, x \in S}

(***************************************************************************)
(* String::from_utf8 on the one- and two-byte encodings.                   *)
(***************************************************************************)
RECURSIVE ValidUtf8(_)
ValidUtf8(bytes) ==
    IF bytes = <<>> THEN TRUE
    ELSE IF bytes[1] < 128 THEN ValidUtf8(Tail(bytes))
    ELSE IF bytes[1] >= 194 /\ bytes[1] <= 223
         THEN /\ Len(bytes) >= 2
              /\ bytes[2] >= 128 /\ bytes[2] <= 191
              /\ ValidUtf8(Tail(Tail(bytes)))
    ELSE FALSE

\* Ok(String) keeps the bytes; Err(FromUtf8Error) carries no text.
from_utf8(bytes) ==
    IF ValidUtf8(bytes) THEN [ok |-> TRUE, value |-> bytes]
    ELSE [ok |-> FALSE, value |-> <<>>]

(***************************************************************************)
(* enum FailedExpectation                                                  *)
(***************************************************************************)
StdOut(expected, actual) == [kind |-> "StdOut", expected |-> expected, actual |-> actual]
StdErr(expected, actual) == [kind |-> "StdErr", expected |-> expected, actual |-> actual]
ExitCode(expected, actual) == [kind |-> "ExitCode", expected |-> expected, actual |-> actual]
MissingExitCode == [kind |-> "MissingExitCode"]

Kinds(fes) == {fes[i].kind : i \in 1..Len(fes)}
OfKind(fes, k) == SelectSeq(fes, LAMBDA fe : fe.kind = k)

(***************************************************************************)
(* expectations.rs: the verifier                                           *)
(***************************************************************************)

\* verify_stdout with the two fields of the Expectation exchanged.
verify_stdout_Exchanged(test, stdout) ==
    IF IsSome(test.out) /\ stdout # test.out[1]
    THEN Some([kind |-> "StdOut", expected |-> stdout, actual |-> test.out[1]])
    ELSE None

\* verify_stdout: Some(StdOut) when an expected text is declared and differs.
verify_stdout(test, stdout) ==
    IF IsSome(test.out) /\ stdout # test.out[1]
    THEN Some(StdOut(test.out[1], stdout))
    ELSE None

\* verify_stderr
verify_stderr(test, stderr) ==
    IF IsSome(test.err) /\ stderr # test.err[1]
    THEN Some(StdErr(test.err[1], stderr))
    ELSE None

\* verify_exit_code: the three match arms, in order.
verify_exit_code(test, exit_code) ==
    IF IsSome(test.exit_code) /\ IsSome(exit_code) /\ exit_code[1] # test.exit_code[1]
    THEN Some(ExitCode(test.exit_code[1], exit_code[1]))
    ELSE IF IsNone(exit_code)
    THEN Some(MissingExitCode)
    ELSE None

\* verify_expectations: Err(Utf8) when a stream does not decode, else the
\* failed expectations in the order stdout, stderr, exit code.
verify_expectations(test, output) ==
    LET stdout == from_utf8(output.stdout)
        stderr == from_utf8(output.stderr)
    IN  IF ~stdout.ok \/ ~stderr.ok
        THEN <<"Err", "Utf8">>
        ELSE <<"Ok", verify_stdout(test, stdout.value)
                      \o verify_stderr(test, stderr.value)
                      \o verify_exit_code(test, output.code)>>

(***************************************************************************)
(* lib.rs: the batch runner                                                *)
(***************************************************************************)

\* validate_test: FALSE stands for Err(Validation(MissingExitCode)).
validate_test(test) == ~(IsSome(test.err) /\ IsNone(test.exit_code))

\* The body of run_test after the command has returned its output (lines
\* 235-275): the outcome is an error returned by `?`, the panic of unwrap(),
\* or the list of failed expectations.
run_test_checks(test, out) ==
    LET stdout == from_utf8(out.stdout)
        stderr == from_utf8(out.stderr)
        fe1 == IF IsSome(test.out) /\ stdout.value # test.out[1]
               THEN <<StdOut(test.out[1], stdout.value)>> ELSE <<>>
        fe2 == IF IsSome(test.err) /\ stderr.value # test.err[1]
               THEN <<StdErr(test.err[1], stderr.value)>> ELSE <<>>
        fe3 == IF IsSome(test.exit_code) /\ test.exit_code[1] # out.code[1]
               THEN <<ExitCode(test.exit_code[1], out.code[1])>> ELSE <<>>
    IN  IF ~validate_test(test) THEN <<"Err", "Validation", "MissingExitCode">>
        ELSE IF ~stdout.ok THEN <<"Err", "Utf8">>
        ELSE IF ~stderr.ok THEN <<"Err", "Utf8">>
        ELSE IF IsSome(test.exit_code) /\ IsNone(out.code) THEN <<"Panic">>
        ELSE <<"Ok", fe1 \o fe2 \o fe3>>

\* A failure numbered before the count is incremented.
Failure_NumberedBeforeIncrement(test, counts, failed_expectations) ==
    [name |-> test.name,
     failure_number |-> counts.failed - 1,
     failed_expectations |-> failed_expectations]

\* struct Failure, as pushed at lines 284-288 after failed was incremented.
Failure(test, counts, failed_expectations) ==
    [name |-> test.name,
     failure_number |-> counts.failed,
     failed_expectations |-> failed_expectations]

\* The final match taken on the passed count instead of the failed count.
TestState_OnPassed(counts) == IF counts.passed > 0 THEN "Passed" ELSE "Failed"

\* The match on test_counts.failed that ends run.
TestState(counts) == IF counts.failed = 0 THEN "Passed" ELSE "Failed"

\* What report_summary prints: the counts line (the failed count only when
\* there are failures) and, when there are failures, each of them in order.
Rendered(counts, fails) ==
    [passed |-> counts.passed,
     failed |-> IF counts.failed > 0 THEN Some(counts.failed) ELSE None,
     total |-> counts.passed + counts.failed,
     failures |-> IF Len(fails) > 0 THEN fails ELSE <<>>]

VARIABLES
    tests,        \* the parsed declarations, in file order
    idx,          \* iterations of the for loop of run that completed
    test_counts,  \* TestCounts
    failures,     \* Vec<Failure>
    output,       \* Some(Output) of the command of test idx+1 while it is checked
    spawned,      \* indices of the tests whose command was handed to bash, in order
    markers,      \* what report_test_passed / report_test_failed printed
    verdicts,     \* failed_expectations of each completed run_test, in order
    summary,      \* Some(what report_summary printed)
    ret,          \* the value run returned, <<>> while it runs
    pc,           \* "loop", "spawned", "returned", "panicked"; "idle" when run is not called
    vtest,        \* verify_expectations: its test argument
    voutput,      \* verify_expectations: its output argument
    vret,         \* verify_expectations: the Result it returned, <<>> before
    vpc           \* "call", "done"; "idle" when verify_expectations is not called

runVars == <<tests, idx, test_counts, failures, output, spawned, markers,
             verdicts, summary, ret, pc>>
verifyVars == <<vtest, voutput, vret, vpc>>
vars == <<runVars, verifyVars>>

RunIdle ==
    /\ idx = 0
    /\ test_counts = [passed |-> 0, failed |-> 0]
    /\ failures = <<>>
    /\ output = None
    /\ spawned = <<>>
    /\ markers = <<>>
    /\ verdicts = <<>>
    /\ summary = None
    /\ ret = <<>>

VerifyIdle ==
    /\ vtest = [name |-> "a", input |-> "cmd", out |-> None, err |-> None, exit_code |-> None]
    /\ voutput = [stdout |-> <<>>, stderr |-> <<>>, code |-> None]
    /\ vret = <<>>
    /\ vpc = "idle"

\* run, lines 198-207: the file parsed, the counts and the failure list fresh.
Init ==
    /\ tests \in SeqsUpTo(RunTests, MaxTests)
    /\ pc = "loop"
    /\ RunIdle
    /\ VerifyIdle

\* run_test line 233, Ok: bash ran the command and its output was captured.
Spawn ==
    /\ pc = "loop"
    /\ idx < Len(tests)
    /\ \E o \in RunOutputs : output' = Some(o)
    /\ spawned' = Append(spawned, idx + 1)
    /\ pc' = "spawned"
    /\ UNCHANGED <<tests, idx, test_counts, failures, markers, verdicts, summary, ret>>
    /\ UNCHANGED verifyVars

\* run_test line 233, Err: the command could not be launched; `?` in run_test
\* and in run (line 210) return the error.
SpawnErr ==
    /\ pc = "loop"
    /\ idx < Len(tests)
    /\ spawned' = Append(spawned, idx + 1)
    /\ ret' = <<"Err", "Io">>
    /\ pc' = "returned"
    /\ UNCHANGED <<tests, idx, test_counts, failures, output, markers, verdicts, summary>>
    /\ UNCHANGED verifyVars

\* run_test counting the test as failed before the error is returned.
RunTestErr_Tallied ==
    /\ pc = "spawned"
    /\ LET r == run_test_checks(tests[idx + 1], output[1])
       IN  /\ r[1] = "Err"
           /\ ret' = r
    /\ markers' = Append(markers, "F")
    /\ test_counts' = [test_counts EXCEPT !.failed = @ + 1]
    /\ pc' = "returned"
    /\ UNCHANGED <<tests, idx, failures, output, spawned, verdicts, summary>>
    /\ UNCHANGED verifyVars

\* run_test lines 239-252 returning Err, propagated by `?` at line 210.
RunTestErr ==
    /\ pc = "spawned"
    /\ LET r == run_test_checks(tests[idx + 1], output[1])
       IN  /\ r[1] = "Err"
           /\ ret' = r
    /\ pc' = "returned"
    /\ UNCHANGED <<tests, idx, test_counts, failures, output, spawned, markers,
                   verdicts, summary>>
    /\ UNCHANGED verifyVars

\* run_test line 267: unwrap() on a status without a code.
RunTestPanic ==
    /\ pc = "spawned"
    /\ run_test_checks(tests[idx + 1], output[1])[1] = "Panic"
    /\ pc' = "panicked"
    /\ UNCHANGED <<tests, idx, test_counts, failures, output, spawned, markers,
                   verdicts, summary, ret>>
    /\ UNCHANGED verifyVars

\* run_test lines 277-279: no failed expectation.
RunTestPassed ==
    /\ pc = "spawned"
    /\ LET r == run_test_checks(tests[idx + 1], output[1])
       IN  /\ r[1] = "Ok"
           /\ Len(r[2]) = 0
           /\ verdicts' = Append(verdicts, r[2])
    /\ markers' = Append(markers, ".")
    /\ test_counts' = [test_counts EXCEPT !.passed = @ + 1]
    /\ idx' = idx + 1
    /\ output' = None
    /\ pc' = "loop"
    /\ UNCHANGED <<tests, failures, spawned, summary, ret>>
    /\ UNCHANGED verifyVars

\* run_test lines 280-289: some expectation failed.
RunTestFailed ==
    /\ pc = "spawned"
    /\ LET r == run_test_checks(tests[idx + 1], output[1])
           counts == [test_counts EXCEPT !.failed = @ + 1]
       IN  /\ r[1] = "Ok"
           /\ Len(r[2]) # 0
           /\ verdicts' = Append(verdicts, r[2])
           /\ test_counts' = counts
           /\ failures' = Append(failures, Failure(tests[idx + 1], counts, r[2]))
    /\ markers' = Append(markers, "F")
    /\ idx' = idx + 1
    /\ output' = None
    /\ pc' = "loop"
    /\ UNCHANGED <<tests, spawned, summary, ret>>
    /\ UNCHANGED verifyVars

\* run lines 213-218: the loop is over; the summary is printed and the state
\* of the batch returned.
Finish ==
    /\ pc = "loop"
    /\ idx = Len(tests)
    /\ summary' = Some(Rendered(test_counts, failures))
    /\ ret' = <<"Ok", TestState(test_counts)>>
    /\ pc' = "returned"
    /\ UNCHANGED <<tests, idx, test_counts, failures, output, spawned, markers, verdicts>>
    /\ UNCHANGED verifyVars

Next ==
    \/ Spawn
    \/ SpawnErr
    \/ RunTestErr
    \/ RunTestPanic
    \/ RunTestPassed
    \/ RunTestFailed
    \/ Finish

Spec == Init /\ [][Next]_vars

(***************************************************************************)
(* verify_expectations applied to every test and output of the bounds.     *)
(***************************************************************************)
InitVerify ==
    /\ tests = <<>>
    /\ pc = "idle"
    /\ RunIdle
    /\ vtest \in VerifyTests
    /\ voutput \in VerifyOutputs
    /\ vret = <<>>
    /\ vpc = "call"

\* verify_expectations returning Ok(failed_expectations).
VerifyOk ==
    /\ vpc = "call"
    /\ verify_expectations(vtest, voutput)[1] = "Ok"
    /\ vret' = verify_expectations(vtest, voutput)
    /\ vpc' = "done"
    /\ UNCHANGED <<vtest, voutput>>
    /\ UNCHANGED runVars

\* verify_expectations returning Err(Utf8) through `?` at lines 79-80.
VerifyErr ==
    /\ vpc = "call"
    /\ verify_expectations(vtest, voutput)[1] = "Err"
    /\ vret' = verify_expectations(vtest, voutput)
    /\ vpc' = "done"
    /\ UNCHANGED <<vtest, voutput>>
    /\ UNCHANGED runVars

NextVerify ==
    \/ VerifyOk
    \/ VerifyErr

SpecVerify == InitVerify /\ [][NextVerify]_vars

(***************************************************************************)
(* Properties                                                              *)
(***************************************************************************)

Terminal == {"returned", "panicked"}
ExecutionError == {<<"Err", "Io">>, <<"Err", "Utf8">>}
Processed == test_counts.passed + test_counts.failed
InOrder(s) == \A i \in 1..Len(s) : s[i] = i

HasDuplicateName(ts) ==
    \E i, j \in 1..Len(ts) : i < j /\ ts[i].name = ts[j].name

\* The name at the first position, in declaration order, that repeats an
\* earlier name.
FirstRepeatedName(ts) ==
    LET repeats(j) == \E i \in 1..(j - 1) : ts[i].name = ts[j].name
        first == CHOOSE j \in 1..Len(ts) :
                    repeats(j) /\ \A k \in 1..(j - 1) : ~repeats(k)
    IN  ts[first].name

NoExpectations(t) == IsNone(t.out) /\ IsNone(t.err) /\ IsNone(t.exit_code)

ValidBatch(ts) ==
    /\ ~HasDuplicateName(ts)
    /\ \A i \in 1..Len(ts) : validate_test(ts[i])

\* C1: a batch with a repeated name ends in DuplicateName(first repeated
\* name), with no command spawned and nothing tallied.
C1_DuplicateNameBeforeAnySpawn ==
    HasDuplicateName(tests) =>
        /\ spawned = <<>>
        /\ test_counts = [passed |-> 0, failed |-> 0]
        /\ pc \in Terminal =>
              ret = <<"Err", "Validation", "DuplicateName", FirstRepeatedName(tests)>>

\* C2: a batch holding, anywhere, a test with expected stderr and no expected
\* exit code ends in the MissingExitCode validation error, with no command
\* spawned and the tally still 0/0.
C2_MissingExitCodeBeforeAnySpawn ==
    (\E i \in 1..Len(tests) : ~validate_test(tests[i])) =>
        /\ spawned = <<>>
        /\ test_counts = [passed |-> 0, failed |-> 0]
        /\ pc \in Terminal => ret = <<"Err", "Validation", "MissingExitCode">>

C4_NoExpectationsNoMismatch ==
    (vpc = "done" /\ NoExpectations(vtest) /\ vret[1] = "Ok") => vret[2] = <<>>

\* C5: a test with an expected exit code whose process gave none is checked
\* to the end, yields MissingExitCode and no ExitCode mismatch, is recorded
\* as failed, and the loop goes on.
C5_AbsentExitCodeIsRecordedFailure ==
    [][(/\ pc = "spawned"
        /\ validate_test(tests[idx + 1])
        /\ ValidUtf8(output[1].stdout) /\ ValidUtf8(output[1].stderr)
        /\ IsSome(tests[idx + 1].exit_code)
        /\ IsNone(output[1].code))
       => /\ pc' = "loop"
          /\ test_counts'.failed = test_counts.failed + 1
          /\ Len(verdicts') = idx + 1
          /\ "MissingExitCode" \in Kinds(verdicts'[idx + 1])
          /\ "ExitCode" \notin Kinds(verdicts'[idx + 1])]_vars

\* C6: with an expected stdout declared and both streams decoding,
\* verify_expectations returns exactly one StdOut carrying the declared and
\* the captured text when they differ, and no StdOut when they are equal.
C6_StdoutMismatchVerbatim ==
    (vpc = "done" /\ IsSome(vtest.out)
        /\ ValidUtf8(voutput.stdout) /\ ValidUtf8(voutput.stderr)) =>
        /\ vret[1] = "Ok"
        /\ LET so == OfKind(vret[2], "StdOut")
           IN  IF voutput.stdout # vtest.out[1]
               THEN /\ Len(so) = 1
                    /\ so[1].expected = vtest.out[1]
                    /\ so[1].actual = voutput.stdout
               ELSE so = <<>>

\* C6 witness: a two-byte captured text against a different, non-empty
\* expected text.
C6_Witness ==
    /\ vpc = "done" /\ vret[1] = "Ok"
    /\ vtest.out = Some(<<97>>)
    /\ voutput.stdout = <<195, 169>>
    /\ Len(OfKind(vret[2], "StdOut")) = 1

\* C7: when run returns Ok, it returns Passed exactly when the failed count
\* is zero, which is exactly when every test of the batch had an empty list
\* of failed expectations; an empty batch returns Passed.
C7_PassedIffNoFailure ==
    (pc = "returned" /\ ret[1] = "Ok") =>
        /\ ret[2] \in {"Passed", "Failed"}
        /\ ret[2] = "Passed" <=> test_counts.failed = 0
        /\ Len(verdicts) = Len(tests)
        /\ test_counts.failed = 0 <=> \A i \in 1..Len(verdicts) : verdicts[i] = <<>>
        /\ tests = <<>> => ret[2] = "Passed"

\* C7 witness: a batch of one passing and one failing test returned Failed.
C7_Witness ==
    /\ pc = "returned" /\ ret = <<"Ok", "Failed">>
    /\ test_counts = [passed |-> 1, failed |-> 1]

\* Positions, in declaration order, of the completed tests that failed.
FailedPositions ==
    SelectSeq([i \in 1..Len(verdicts) |-> i], LAMBDA i : verdicts[i] # <<>>)

C9_Tally ==
    /\ Processed = Len(markers)
    /\ Processed = Len(verdicts)
    /\ Processed = Len(spawned) - (IF pc = "loop" \/ pc = "idle" THEN 0
                                   ELSE IF pc = "returned" /\ ret[1] = "Ok" THEN 0
                                   ELSE 1)
    /\ Len(failures) = test_counts.failed
    /\ \A i \in 1..Len(failures) :
          /\ failures[i].failure_number = i
          /\ failures[i].failed_expectations # <<>>
    /\ Len(FailedPositions) = Len(failures)
    /\ \A i \in 1..Len(failures) :
          /\ failures[i].name = tests[FailedPositions[i]].name
          /\ failures[i].failed_expectations = verdicts[FailedPositions[i]]

C9_Monotone ==
    /\ test_counts'.passed >= test_counts.passed
    /\ test_counts'.failed >= test_counts.failed
    /\ Len(failures') >= Len(failures)
    /\ SubSeq(failures', 1, Len(failures)) = failures

\* C9: at every point of run, passed + failed is the number of tests
\* processed, the failure list has `failed` records, record i is numbered i,
\* has failed expectations and belongs to the i-th failing test in
\* declaration order; the counts never decrease and the list never loses or
\* changes a record.
C9_TallyAndFailureList == []C9_Tally /\ [][C9_Monotone]_vars

\* C8: for a test without expected exit code, verify_expectations returns
\* neither an ExitCode mismatch nor MissingExitCode, whether or not the
\* process gave an exit code and whatever the other expectations.
C8_NoExitCodeCheckWithoutExpectation ==
    (vpc = "done" /\ IsNone(vtest.exit_code) /\ vret[1] = "Ok") =>
        Kinds(vret[2]) \cap {"ExitCode", "MissingExitCode"} = {}

\* C9 witness: two failures recorded after each other.
C9_Witness ==
    /\ Len(failures) = 2
    /\ failures[2].failure_number = 2

\* C10: in a valid batch without execution error the run is never cut short:
\* commands are spawned once each in declaration order, each test is tallied
\* before the next is spawned, and run returns Ok after the summary with
\* passed + failed equal to the size of the batch.
C10_FailureNeverAbortsRun ==
    (ValidBatch(tests) /\ ret \notin ExecutionError) =>
        /\ pc # "panicked"
        /\ InOrder(spawned)
        /\ Len(spawned) - Processed = (IF pc = "spawned" THEN 1 ELSE 0)
        /\ pc = "returned" =>
              /\ ret[1] = "Ok"
              /\ Processed = Len(tests)
              /\ Len(spawned) = Len(tests)
              /\ IsSome(summary)

====
